---- MODULE Spec2Model ----
(***************************************************************************)
(* Model of examples/streaming-aggregation.ipynb: a streamz source that    *)
(* fans every dataframe out to SlidingWindowImageAggregate and             *)
(* CumulativeMean streams, each sinking its results into a bounded deque.  *)
(***************************************************************************)
EXTENDS Integers, Sequences, FiniteSets, TLC

\* ------------------------------------------------------------------ bounds
MaxPush == 3    \* number of source.emit calls explored
MaxTime == 2    \* timestamps are 1..MaxTime
MaxW == 2       \* largest sliding window n
MaxH == 2       \* largest deque maxlen (history)

\* ------------------------------------------------------------------ values
None == -1              \* Python None, where a timestamp may stand
NaT == 0                \* what Index.min()/max() of an empty index returns (nan / NaT)
NaN == -1               \* an empty raster bin
NoError == "None"       \* no exception raised
Timestamps == 1..MaxTime
Bins == {1, 2}          \* pixels of the canvas

Min2(a, b) == IF a <= b THEN a ELSE b
Max2(a, b) == IF a >= b THEN a ELSE b

RECURSIVE GCD(_, _)
GCD(a, b) == IF b = 0 THEN a ELSE GCD(b, a % b)

RECURSIVE SeqSum(_)
SeqSum(s) == IF s = <<>> THEN 0 ELSE s[1] + SeqSum(Tail(s))

\* ------------------------------------------------------------------ dataframes
\* A dataframe: its index (row timestamps, sorted by df.sort_index()) and its
\* columns, each a sequence of one value per row.
SortedIndex(S) ==
  CHOOSE s \in [1..Cardinality(S) -> S] :
    \A i, j \in 1..Cardinality(S) : i < j => s[i] < s[j]

\* The dataframe with one row per timestamp of S and the columns cols. A row's
\* pixel and amounts follow from its timestamp, so that a dataframe is known
\* by its timestamps and its columns.
PixelOf(t) == (t % 2) + 1
DataFrame(S, cols) ==
  LET ix == SortedIndex(S)
  IN [index |-> ix,
      data |-> [c \in cols |-> [i \in 1..Len(ix) |->
                  IF c = "pickup" THEN PixelOf(ix[i]) ELSE ix[i]]]]

FramesOver(colsets) == {DataFrame(S, cols) : S \in SUBSET Timestamps, cols \in colsets}

\* pd.DataFrame(): no rows and no columns
EmptyDataFrame == [index |-> <<>>, data |-> <<>>]

RECURSIVE SeqMin(_)
SeqMin(s) == IF Len(s) = 1 THEN s[1] ELSE Min2(s[1], SeqMin(Tail(s)))

RECURSIVE SeqMax(_)
SeqMax(s) == IF Len(s) = 1 THEN s[1] ELSE Max2(s[1], SeqMax(Tail(s)))

\* df.index.min(), df.index.max()
IndexMin(df) == IF df.index = <<>> THEN NaT ELSE SeqMin(df.index)
IndexMax(df) == IF df.index = <<>> THEN NaT ELSE SeqMax(df.index)

\* df[column] raises KeyError unless the column is there
HasColumn(df, c) == c \in DOMAIN df.data

\* df[column].sum()
ColumnSum(df, c) == SeqSum(df.data[c])

\* Python truth value: None is falsy; a Timestamp, NaT and nan are truthy
Truthy(v) == v # None

\* total / count (true division), kept exact as a reduced fraction <<num, den>>
TrueDiv(a, b) == LET g == GCD(a, b) IN IF a = 0 THEN <<0, 1>> ELSE <<a \div g, b \div g>>

\* ------------------------------------------------------------------ deque
\* a deque that never evicts
DequeAppendUnbounded(d, m, x) == Append(d, x)

\* a deque that, once full, drops what is appended
DequeAppendKeepOldest(d, m, x) == IF Len(d) >= m THEN d ELSE Append(d, x)

\* collections.deque(maxlen=m).append(x)
DequeAppend(d, m, x) ==
  IF m = 0 THEN d
  ELSE IF Len(d) = m THEN Append(Tail(d), x)
  ELSE Append(d, x)

\* ------------------------------------------------------------------ datashader
RECURSIVE SetSum(_, _)
SetSum(I, f) ==
  IF I = {} THEN 0 ELSE LET i == CHOOSE k \in I : TRUE IN f[i] + SetSum(I \ {i}, f)

\* canvas.points(df, x, y, agg) raises unless df has the x/y columns and agg's column
PointsOk(df, agg) == {"pickup", agg.column} \subseteq DOMAIN df.data

\* canvas.points(df, x, y, agg): one value per pixel, NaN where no row falls
Points(df, agg) ==
  [b \in Bins |->
     LET I == {i \in 1..Len(df.index) : df.data["pickup"][i] = b}
         v == df.data[agg.column]
     IN IF I = {} THEN NaN
        ELSE IF agg.op = "sum" THEN SetSum(I, v)
        ELSE CHOOSE m \in {v[i] : i \in I} : \A i \in I : v[i] <= m]

\* x + y on two raster cells, and on two rasters (NaN propagates)
CellAdd(a, b) == IF a = NaN \/ b = NaN THEN NaN ELSE a + b
RasterAdd(r, s) == [b \in Bins |-> CellAdd(r[b], s[b])]

\* tf.shade(agg, cmap, name=name) raises TypeError unless cmap is a colormap
ShadeOk(cmap) == cmap # "None"

\* tf.set_background(tf.shade(total, cmap, name=name), color=bgcolor): the image,
\* kept as the name it carries and the raster it renders
Shade(total, name) == [name |-> name, data |-> total]

\* "{:.10}".format(str(t)): the first ten characters, i.e. the date of a
\* timestamp (two timestamps a day), or "NaT" unchanged
Str10(t) == IF t = NaT THEN 0 ELSE (t \div 2) + 1

\* ------------------------------------------------------------------ SlidingWindowImageAggregate
\* aggregate_df(df): (df.index.min(), df.index.max(), canvas.points(df, x, y, agg))
aggregate_df(df, agg) == <<IndexMin(df), IndexMax(df), Points(df, agg)>>

\* a sum that forgets all but the newest item
SumItemsLast(acc, items) ==
  IF items = <<>> THEN acc ELSE RasterAdd(acc, items[Len(items)][3])

\* sum([item[2] for item in iterable]): 0 + r1 + r2 + ...
RECURSIVE SumItems(_, _)
SumItems(acc, items) ==
  IF items = <<>> THEN acc ELSE SumItems(RasterAdd(acc, items[1][3]), Tail(items))

aggregate_images(iterable) ==
  LET name == <<Str10(iterable[1][1]), Str10(iterable[Len(iterable)][2])>>
      total == SumItems([b \in Bins |-> 0], iterable)
  IN Shade(total, name)

\* What one stream holds: the window (cache), the cumulative state, the state of
\* accumulate (start=(0, 0, None)), the deque its sink appends to, and the log
\* of everything it emitted.
NewStream ==
  [cache |-> <<>>, count |-> 0, total |-> 0, oldest |-> None,
   state |-> <<0, 0, None>>,
   q |-> <<>>, out |-> <<>>, wins |-> <<>>]

\* stream.emit(item) with the one downstream s.sink(q.append)
EmitToSink(cfg, st, item) ==
  [st EXCEPT !.q = DequeAppend(st.q, cfg.history, item),
             !.out = Append(st.out, item)]

\* an update that, like streamz's sliding_window, emits full windows only
SlidingUpdateFullOnly(cfg, st, x) ==
  IF ~PointsOk(x, cfg.agg)
  THEN [st |-> st, raised |-> "ValueError"]
  ELSE LET c == DequeAppend(st.cache, cfg.n, aggregate_df(x, cfg.agg))
           s1 == [st EXCEPT !.cache = c]
       IN IF c = <<>> THEN [st |-> s1, raised |-> "IndexError"]
          ELSE IF ~ShadeOk(cfg.cmap) THEN [st |-> s1, raised |-> "TypeError"]
          ELSE IF Len(c) < cfg.n THEN [st |-> s1, raised |-> NoError]
          ELSE [st |-> EmitToSink(cfg, [s1 EXCEPT !.wins = Append(s1.wins, Len(c))],
                                  aggregate_images(c)),
                raised |-> NoError]

\* an update that combines the window before it appends to it
SlidingUpdateCombinesFirst(cfg, st, x) ==
  IF ~PointsOk(x, cfg.agg)
  THEN [st |-> st, raised |-> "ValueError"]
  ELSE LET c == DequeAppend(st.cache, cfg.n, aggregate_df(x, cfg.agg))
           s1 == [st EXCEPT !.cache = c]
       IN IF st.cache = <<>> THEN [st |-> s1, raised |-> "IndexError"]
          ELSE IF ~ShadeOk(cfg.cmap) THEN [st |-> s1, raised |-> "TypeError"]
          ELSE [st |-> EmitToSink(cfg, [s1 EXCEPT !.wins = Append(s1.wins, Len(st.cache))],
                                  aggregate_images(st.cache)),
                raised |-> NoError]

\* SlidingWindowImageAggregate.update(x)
SlidingUpdate(cfg, st, x) ==
  IF ~PointsOk(x, cfg.agg)
  THEN [st |-> st, raised |-> "ValueError"]
  ELSE LET c == DequeAppend(st.cache, cfg.n, aggregate_df(x, cfg.agg))
           s1 == [st EXCEPT !.cache = c]
       IN IF c = <<>> THEN [st |-> s1, raised |-> "IndexError"]
          ELSE IF ~ShadeOk(cfg.cmap) THEN [st |-> s1, raised |-> "TypeError"]
          ELSE [st |-> EmitToSink(cfg, [s1 EXCEPT !.wins = Append(s1.wins, Len(c))],
                                  aggregate_images(c)),
                raised |-> NoError]

\* ------------------------------------------------------------------ CumulativeMean
\* an update that counts rows instead of dataframes
CumulativeUpdateCountsRows(cfg, st, x) ==
  LET s1 == IF ~Truthy(st.oldest) THEN [st EXCEPT !.oldest = IndexMin(x)] ELSE st
  IN IF ~HasColumn(x, cfg.column)
     THEN [st |-> s1, raised |-> "KeyError"]
     ELSE LET s2 == [s1 EXCEPT !.count = s1.count + Len(x.index),
                               !.total = s1.total + ColumnSum(x, cfg.column)]
          IN IF s2.count = 0 THEN [st |-> s2, raised |-> "ZeroDivisionError"]
             ELSE [st |-> EmitToSink(cfg, s2,
                       <<s2.oldest, IndexMax(x), TrueDiv(s2.total, s2.count)>>),
                   raised |-> NoError]

\* an update that takes oldest from every dataframe
CumulativeUpdateNoGuard(cfg, st, x) ==
  LET s1 == [st EXCEPT !.oldest = IndexMin(x)]
  IN IF ~HasColumn(x, cfg.column)
     THEN [st |-> s1, raised |-> "KeyError"]
     ELSE LET s2 == [s1 EXCEPT !.count = s1.count + 1,
                               !.total = s1.total + ColumnSum(x, cfg.column)]
          IN [st |-> EmitToSink(cfg, s2,
                       <<s2.oldest, IndexMax(x), TrueDiv(s2.total, s2.count)>>),
              raised |-> NoError]

\* an update that keeps the earliest timestamp it has seen
CumulativeUpdateTracksMin(cfg, st, x) ==
  LET s1 == IF ~Truthy(st.oldest) \/ st.oldest = NaT
               \/ (IndexMin(x) # NaT /\ IndexMin(x) < st.oldest)
            THEN [st EXCEPT !.oldest = IndexMin(x)] ELSE st
  IN IF ~HasColumn(x, cfg.column)
     THEN [st |-> s1, raised |-> "KeyError"]
     ELSE LET s2 == [s1 EXCEPT !.count = s1.count + 1,
                               !.total = s1.total + ColumnSum(x, cfg.column)]
          IN [st |-> EmitToSink(cfg, s2,
                       <<s2.oldest, IndexMax(x), TrueDiv(s2.total, s2.count)>>),
              raised |-> NoError]

\* an update that divides by the count it had before this dataframe
CumulativeUpdateDividesFirst(cfg, st, x) ==
  LET s1 == IF ~Truthy(st.oldest) THEN [st EXCEPT !.oldest = IndexMin(x)] ELSE st
  IN IF ~HasColumn(x, cfg.column)
     THEN [st |-> s1, raised |-> "KeyError"]
     ELSE LET s2 == [s1 EXCEPT !.count = s1.count + 1,
                               !.total = s1.total + ColumnSum(x, cfg.column)]
          IN IF s1.count = 0
             THEN [st |-> s2, raised |-> "ZeroDivisionError"]
             ELSE [st |-> EmitToSink(cfg, s2,
                            <<s2.oldest, IndexMax(x), TrueDiv(s2.total, s1.count)>>),
                   raised |-> NoError]

\* CumulativeMean.update(x); self.total / self.count raises ZeroDivisionError
\* on a zero count
CumulativeUpdate(cfg, st, x) ==
  LET s1 == IF ~Truthy(st.oldest) THEN [st EXCEPT !.oldest = IndexMin(x)] ELSE st
  IN IF ~HasColumn(x, cfg.column)
     THEN [st |-> s1, raised |-> "KeyError"]
     ELSE LET s2 == [s1 EXCEPT !.count = s1.count + 1,
                               !.total = s1.total + ColumnSum(x, cfg.column)]
          IN IF s2.count = 0
             THEN [st |-> s2, raised |-> "ZeroDivisionError"]
             ELSE [st |-> EmitToSink(cfg, s2,
                            <<s2.oldest, IndexMax(x), TrueDiv(s2.total, s2.count)>>),
                   raised |-> NoError]

\* ------------------------------------------------------------------ cumulative_mean_queue
\* accumulator(acc, df): `n, total, oldest = acc` raises ValueError unless acc
\* has exactly three items; the result has four
accumulator(acc, df, column) ==
  IF Len(acc) # 3 THEN [value |-> acc, raised |-> "ValueError"]
  ELSE LET n == acc[1]
           total == acc[2]
           oldest == IF ~Truthy(acc[3]) THEN IndexMin(df) ELSE acc[3]
       IN IF ~HasColumn(df, column) THEN [value |-> acc, raised |-> "KeyError"]
          ELSE [value |-> <<n + 1, total + ColumnSum(df, column), oldest, IndexMax(df)>>,
                raised |-> NoError]

\* merge(value): `n, total, oldest, latest = value`; (oldest, latest, total / n)
merge(value) ==
  IF Len(value) # 4 THEN [value |-> value, raised |-> "ValueError"]
  ELSE IF value[1] = 0 THEN [value |-> value, raised |-> "ZeroDivisionError"]
  ELSE [value |-> <<value[3], value[4], TrueDiv(value[2], value[1])>>,
        raised |-> NoError]

\* source.accumulate(accumulator, start=(0, 0, None)).map(merge).sink(q.append):
\* accumulate calls accumulator(state, x), keeps the result as its new state and
\* emits it; an exception leaves the state as it was
AccumulateUpdate(cfg, st, x) ==
  LET a == accumulator(st.state, x, cfg.column)
  IN IF a.raised # NoError THEN [st |-> st, raised |-> a.raised]
     ELSE LET s1 == [st EXCEPT !.state = a.value]
              m == merge(a.value)
          IN IF m.raised # NoError THEN [st |-> s1, raised |-> m.raised]
             ELSE [st |-> EmitToSink(cfg, s1, m.value), raised |-> NoError]

Update(cfg, st, x) ==
  IF cfg.kind = "sliding" THEN SlidingUpdate(cfg, st, x)
  ELSE IF cfg.kind = "accumulate" THEN AccumulateUpdate(cfg, st, x)
  ELSE CumulativeUpdate(cfg, st, x)

\* ------------------------------------------------------------------ streams
SlidingWindowImageAggregate(agg, n, cmap, history) ==
  [kind |-> "sliding", agg |-> agg, column |-> agg.column, n |-> n,
   cmap |-> cmap, history |-> history]

CumulativeMean(column, history) ==
  [kind |-> "cumulative", agg |-> [op |-> "sum", column |-> column],
   column |-> column, n |-> 0, cmap |-> "None", history |-> history]

\* cumulative_mean_queue(source, column, history)
cumulative_mean_queue(column, history) ==
  [kind |-> "accumulate", agg |-> [op |-> "sum", column |-> column],
   column |-> column, n |-> 0, cmap |-> "None", history |-> history]

VARIABLES
  downstreams,  \* the streams registered on source, in registration order
  streams,      \* the state of each registered stream
  inputs,       \* every dataframe given to source.emit so far
  calls,        \* the update calls of the latest source.emit: <<stream, outcome>>
  returned,     \* per stream, how many of its update calls returned normally
  exc           \* the exception the latest source.emit raised, or NoError

vars == <<downstreams, streams, inputs, calls, returned, exc>>

\* an emit that isolates the streams: a failing update does not end the loop
RECURSIVE EmitLoopIsolated(_, _, _, _)
EmitLoopIsolated(i, S, log, x) ==
  IF i > Len(downstreams)
  THEN [streams |-> S, calls |-> log,
        exc |-> IF \E k \in DOMAIN log : log[k][2] # NoError
                THEN log[CHOOSE k \in DOMAIN log : log[k][2] # NoError
                           /\ \A l \in 1..(k - 1) : log[l][2] = NoError][2]
                ELSE NoError]
  ELSE LET r == Update(downstreams[i], S[i], x)
       IN EmitLoopIsolated(i + 1, [S EXCEPT ![i] = r.st],
                           Append(log, <<i, r.raised>>), x)

\* an emit that is atomic: a failing update undoes what the earlier streams did
RECURSIVE EmitLoopAtomic(_, _, _, _)
EmitLoopAtomic(i, S, log, x) ==
  IF i > Len(downstreams)
  THEN [streams |-> S, calls |-> log, exc |-> NoError]
  ELSE LET r == Update(downstreams[i], S[i], x)
           log1 == Append(log, <<i, r.raised>>)
       IN IF r.raised # NoError
          THEN [streams |-> streams, calls |-> log1, exc |-> r.raised]
          ELSE EmitLoopAtomic(i + 1, [S EXCEPT ![i] = r.st], log1, x)

\* source.emit(x): for downstream in self.downstreams: downstream.update(x);
\* an exception ends the loop and reaches the caller
RECURSIVE EmitLoop(_, _, _, _)
EmitLoop(i, S, log, x) ==
  IF i > Len(downstreams) THEN [streams |-> S, calls |-> log, exc |-> NoError]
  ELSE LET r == Update(downstreams[i], S[i], x)
           S1 == [S EXCEPT ![i] = r.st]
           log1 == Append(log, <<i, r.raised>>)
       IN IF r.raised # NoError
          THEN [streams |-> S1, calls |-> log1, exc |-> r.raised]
          ELSE EmitLoop(i + 1, S1, log1, x)

SourceEmit(x) ==
  /\ Len(inputs) < MaxPush
  /\ LET r == EmitLoop(1, streams, <<>>, x)
     IN /\ streams' = r.streams
        /\ calls' = r.calls
        /\ exc' = r.exc
        /\ returned' = [i \in DOMAIN returned |->
             IF \E k \in DOMAIN r.calls : r.calls[k] = <<i, NoError>>
             THEN returned[i] + 1 ELSE returned[i]]
  /\ inputs' = Append(inputs, x)
  /\ UNCHANGED downstreams

InitWith(D) ==
  /\ downstreams \in D
  /\ streams = [i \in 1..Len(downstreams) |-> NewStream]
  /\ inputs = <<>>
  /\ calls = <<>>
  /\ returned = [i \in 1..Len(downstreams) |-> 0]
  /\ exc = NoError

\* ------------------------------------------------------------------ specifications
max_amount == [op |-> "max", column |-> "total_amount"]
sum_amount == [op |-> "sum", column |-> "total_amount"]
viridis == "viridis"

\* one sliding-window stream, fed dataframes with the pickup and amount columns
\* and the column-less pd.DataFrame()
WindowConfigs ==
  { <<SlidingWindowImageAggregate(a, n, cm, h)>> :
      a \in {max_amount, sum_amount}, n \in 1..MaxW, cm \in {viridis, "None"},
      h \in 1..MaxH }

WindowFrames == FramesOver({{"pickup", "total_amount"}}) \cup {EmptyDataFrame}

InitWindow == InitWith(WindowConfigs)
PushWindow == \E x \in WindowFrames : SourceEmit(x)
SpecWindow == InitWindow /\ [][PushWindow]_vars

\* one cumulative-mean stream, fed dataframes with and without its column
\* (pd.DataFrame() among them)
CumulativeConfigs == { <<CumulativeMean("passenger_count", h)>> : h \in 1..MaxH }

CumulativeFrames == FramesOver({{"passenger_count"}, {}})

InitCumulative == InitWith(CumulativeConfigs)
PushCumulative == \E x \in CumulativeFrames : SourceEmit(x)
SpecCumulative == InitCumulative /\ [][PushCumulative]_vars

\* the four streams the notebook registers on source, in its order:
\* s_days, s_week, s_avg_passengers, s_avg_amount with their deques
NotebookStreams ==
  << SlidingWindowImageAggregate(max_amount, 2, viridis, 6),
     SlidingWindowImageAggregate(max_amount, 7, viridis, 1),
     CumulativeMean("passenger_count", 7),
     CumulativeMean("total_amount", 7) >>

EngineFrames ==
  FramesOver({{"pickup", "total_amount", "passenger_count"},
              {"pickup", "total_amount"}, {}})

Init == InitWith({NotebookStreams})
Next == \E x \in EngineFrames : SourceEmit(x)
Spec == Init /\ [][Next]_vars

\* deque(maxlen=history): a negative maxlen raises ValueError at construction,
\* any other is accepted, 0 included
DequeMaxlenOk(maxlen) == maxlen >= 0

\* one stream of either kind whose deque the constructor accepted, for every
\* history from -1 up
HistoryConfigs ==
  { <<CumulativeMean("passenger_count", h)>> :
      h \in {m \in (-1)..MaxH : DequeMaxlenOk(m)} }
  \cup
  { <<SlidingWindowImageAggregate(max_amount, 1, viridis, h)>> :
      h \in {m \in (-1)..MaxH : DequeMaxlenOk(m)} }

HistoryFrames == FramesOver({{"pickup", "total_amount", "passenger_count"}})

InitHistory == InitWith(HistoryConfigs)
PushHistory == \E x \in HistoryFrames : SourceEmit(x)
SpecHistory == InitHistory /\ [][PushHistory]_vars

\* the class CumulativeMean and the pipeline cumulative_mean_queue side by
\* side on one source, same column and same history, fed dataframes that
\* carry the column
EquivalenceConfigs ==
  { <<CumulativeMean("passenger_count", h),
      cumulative_mean_queue("passenger_count", h)>> : h \in 1..MaxH }

EquivalenceFrames == FramesOver({{"passenger_count"}})

InitEquivalence == InitWith(EquivalenceConfigs)
PushEquivalence == \E x \in EquivalenceFrames : SourceEmit(x)
SpecEquivalence == InitEquivalence /\ [][PushEquivalence]_vars

\* ------------------------------------------------------------------ properties
Last(s) == s[Len(s)]
Suffix(s, m) == SubSeq(s, Len(s) - m + 1, Len(s))
Sliding == {i \in 1..Len(downstreams) : downstreams[i].kind = "sliding"}
Cumulative == {i \in 1..Len(downstreams) : downstreams[i].kind = "cumulative"}

\* the dataframes among those pushed that stream i's reducer accepted
Reduced(i) ==
  LET Ok(x) == PointsOk(x, downstreams[i].agg) IN SelectSeq(inputs, Ok)

\* C1: a sliding-window stream emits exactly one result per update that
\* returns, partial windows included: after k such updates it has emitted k
\* results, and the i-th was combined from a window of min(i, n) elements.
C1_OneEmissionPerUpdate ==
  \A i \in Sliding :
    /\ Len(streams[i].out) = returned[i]
    /\ Len(streams[i].wins) = returned[i]
    /\ \A k \in 1..Len(streams[i].wins) :
         streams[i].wins[k] = Min2(k, downstreams[i].n)

\* a window of 2 has emitted three times: from 1 element, then 2, then 2
C1_Witness ==
  \E i \in Sliding :
    /\ downstreams[i].n = 2
    /\ Len(streams[i].out) = 3
    /\ returned[i] = 3
    /\ streams[i].wins = <<1, 2, 2>>

\* C2: the window buffer never holds more than n partial aggregates; after
\* the reducer has accepted k dataframes it holds exactly the partial
\* aggregates of the last min(k, n) of them, in arrival order, so that its
\* length is n from the n-th on.
C2_WindowIsLastN ==
  \A i \in Sliding :
    LET acc == Reduced(i)
        m == Min2(Len(acc), downstreams[i].n)
    IN /\ Len(streams[i].cache) <= downstreams[i].n
       /\ Len(streams[i].cache) = m
       /\ \A j \in 1..m :
            streams[i].cache[j] = aggregate_df(Suffix(acc, m)[j], downstreams[i].agg)

\* a window of 2 after three dataframes: the first has been evicted, and the
\* two it holds differ
C2_Witness ==
  \E i \in Sliding :
    /\ downstreams[i].n = 2
    /\ Len(Reduced(i)) = 3
    /\ Len(streams[i].cache) = 2
    /\ streams[i].cache[1] # streams[i].cache[2]
    /\ streams[i].cache[1] # aggregate_df(inputs[1], downstreams[i].agg)

\* the rows of dataframe x that fall on pixel b
RowsAt(x, b) == {r \in 1..Len(x.index) : x.data["pickup"][r] = b}

\* the sum of the per-pixel sums of the dataframes fs: NaN on a pixel where
\* one of them has no row
RECURSIVE AmountAt(_, _)
AmountAt(fs, b) ==
  IF fs = <<>> THEN 0
  ELSE SetSum(RowsAt(fs[1], b), fs[1].data["total_amount"]) + AmountAt(Tail(fs), b)

SumOfPayloads(fs) ==
  [b \in Bins |->
     IF \E j \in 1..Len(fs) : RowsAt(fs[j], b) = {} THEN NaN ELSE AmountAt(fs, b)]

\* C3: with the sum reduction, the k-th image a sliding-window stream emits
\* renders the sum of the payloads of the last min(k, n) dataframes it
\* accepted, and of no others.
C3_EmitsSumOfWindow ==
  \A i \in Sliding :
    downstreams[i].agg.op = "sum" =>
      \A k \in 1..Len(streams[i].out) :
        LET upto == SubSeq(Reduced(i), 1, k)
        IN streams[i].out[k].data
             = SumOfPayloads(Suffix(upto, Min2(k, downstreams[i].n)))

\* n = 2 fed three dataframes whose pixel 1 sums to 2 each: 2, 4, 4
C3_Witness ==
  \E i \in Sliding :
    /\ downstreams[i].agg.op = "sum"
    /\ downstreams[i].n = 2
    /\ Len(streams[i].out) = 3
    /\ streams[i].out[1].data[1] = 2
    /\ streams[i].out[2].data[1] = 4
    /\ streams[i].out[3].data[1] = 4

\* C4: the deque a stream sinks into never holds more than its maxlen, and
\* holds exactly the last min(emitted, maxlen) results the stream emitted,
\* oldest first, whatever the window size.
C4_DequeIsLastH ==
  \A i \in 1..Len(downstreams) :
    LET h == downstreams[i].history
        m == Min2(Len(streams[i].out), h)
    IN /\ Len(streams[i].q) <= h
       /\ streams[i].q = Suffix(streams[i].out, m)

\* a deque of 2 after three different results A, B, C holds <<B, C>>, under a
\* window of 1
C4_Witness ==
  \E i \in 1..Len(downstreams) :
    /\ downstreams[i].history = 2
    /\ downstreams[i].n = 1
    /\ Len(streams[i].out) = 3
    /\ streams[i].out[1] # streams[i].out[2]
    /\ streams[i].out[2] # streams[i].out[3]
    /\ streams[i].out[1] # streams[i].out[3]
    /\ streams[i].q = <<streams[i].out[2], streams[i].out[3]>>

\* the dataframes among those pushed that carry cumulative stream i's column
Summed(i) ==
  LET Ok(x) == HasColumn(x, downstreams[i].column) IN SelectSeq(inputs, Ok)

\* the sum of the column over the first j of the dataframes fs, and their rows
RECURSIVE SumUpTo(_, _, _)
SumUpTo(fs, c, j) == IF j = 0 THEN 0 ELSE ColumnSum(fs[j], c) + SumUpTo(fs, c, j - 1)

RECURSIVE RowsUpTo(_, _)
RowsUpTo(fs, j) == IF j = 0 THEN 0 ELSE Len(fs[j].index) + RowsUpTo(fs, j - 1)

\* the fraction f is the quotient a / b
IsQuotient(f, a, b) == f[2] > 0 /\ b > 0 /\ f[1] * b = a * f[2]

C6_MeanPerRecord ==
  \A i \in Cumulative :
    \A j \in 1..Len(streams[i].out) :
      RowsUpTo(Summed(i), j) > 0 =>
        IsQuotient(streams[i].out[j][3],
                   SumUpTo(Summed(i), downstreams[i].column, j),
                   RowsUpTo(Summed(i), j))

IsTimestamp(v) == v \in Timestamps

\* C7: once oldest holds a timestamp no later update changes it, and across
\* the emitted results oldest never moves and never goes back to unset.
C7_OldestNeverMoves ==
  /\ [][\A i \in Cumulative :
          IsTimestamp(streams[i].oldest) => streams'[i].oldest = streams[i].oldest]_vars
  /\ [](\A i \in Cumulative :
          \A j, k \in 1..Len(streams[i].out) :
            (j < k /\ IsTimestamp(streams[i].out[j][1]))
               => streams[i].out[k][1] = streams[i].out[j][1])

\* oldest was set to 2 by the first dataframe and two later updates, fed
\* the earlier timestamp 1, left it there
C7_Witness ==
  \E i \in Cumulative :
    /\ Len(inputs) = 3
    /\ Len(streams[i].out) = 3
    /\ IndexMin(inputs[1]) = 2
    /\ IndexMin(inputs[2]) = 1
    /\ IndexMin(inputs[3]) = 1
    /\ streams[i].oldest = 2
    /\ streams[i].out[3][1] = 2

\* the earliest timestamp of the non-empty dataframes fs, NaT if there is none
EarliestSeen(fs) ==
  LET T == {IndexMin(fs[j]) : j \in 1..Len(fs)} \ {NaT}
  IN IF T = {} THEN NaT ELSE CHOOSE t \in T : \A u \in T : t <= u

C9_EmptyBatchSucceeds ==
  \A i \in Cumulative :
    (inputs # <<>> /\ Last(inputs).index = <<>>) =>
      /\ exc = NoError
      /\ calls = <<(<<i, NoError>>)>>
      /\ streams[i].out # <<>>
      /\ Last(streams[i].out)[3] = TrueDiv(streams[i].total, streams[i].count)

\* C10: source.emit(x) calls update(x) of the registered streams once each,
\* in registration order, up to the first that raises; the exception reaches
\* the caller and the streams after the failing one are left as they were.
C10_InOrderUntilFirstFailure ==
  [][LET N == Len(downstreams)
         c == calls'
     IN /\ Len(c) \in 1..N
        /\ \A k \in 1..Len(c) : c[k][1] = k
        /\ \A k \in 1..(Len(c) - 1) : c[k][2] = NoError
        /\ exc' = c[Len(c)][2]
        /\ exc' = NoError => Len(c) = N
        /\ \A k \in 1..Len(c) :
             c[k][2] = NoError =>
               Len(streams'[k].out) = Len(streams[k].out) + 1
        /\ \A i \in (Len(c) + 1)..N : streams'[i] = streams[i]]_vars

\* the third stream raised KeyError: the two before it have emitted, the
\* fourth was not called
C10_Witness ==
  /\ Len(downstreams) = 4
  /\ exc = "KeyError"
  /\ Len(calls) = 3
  /\ streams[1].out # <<>>
  /\ streams[2].out # <<>>
  /\ streams[3].oldest # None
  /\ streams[4] = NewStream

\* the dataframes whose partial aggregates made up the window of stream i's
\* k-th emission
WindowOf(i, k) == Suffix(SubSeq(Reduced(i), 1, k), Min2(k, downstreams[i].n))

\* the earliest and the latest timestamp of the dataframes fs, NaT if none has rows
LatestSeen(fs) ==
  LET T == {IndexMax(fs[j]) : j \in 1..Len(fs)} \ {NaT}
  IN IF T = {} THEN NaT ELSE CHOOSE t \in T : \A u \in T : u <= t

\* C11: the image combined from a window is labelled with the minimum of the
\* minTimestamp of all window elements (those of empty dataframes ignored)
\* and the maximum of their maxTimestamp, in whatever order they arrived.
C11_LabelIsMinAndMax ==
  \A i \in Sliding :
    \A k \in 1..Len(streams[i].out) :
      streams[i].out[k].name
        = <<Str10(EarliestSeen(WindowOf(i, k))), Str10(LatestSeen(WindowOf(i, k)))>>

\* C12: a deque of results exists only with a capacity of at least 1, so none
\* silently discards every result pushed to it: once its stream has emitted,
\* the deque holds the latest result.
C12_NoDequeDiscardsEverything ==
  \A i \in 1..Len(downstreams) :
    streams[i].out # <<>> =>
      /\ downstreams[i].history >= 1
      /\ streams[i].q # <<>>
      /\ Last(streams[i].q) = Last(streams[i].out)

\* the values of column col in the rows of the dataframes fs that fall on pixel b
ValuesAt(fs, col, b) ==
  {fs[j].data[col][r] : <<j, r>> \in
     {<<j, r>> \in (1..Len(fs)) \X (1..MaxTime) : r \in RowsAt(fs[j], b)}}

\* the reduction agg applied per pixel to all rows of the dataframes fs at once
ReducedOverAll(fs, agg) ==
  [b \in Bins |->
     IF \A j \in 1..Len(fs) : RowsAt(fs[j], b) = {} THEN NaN
     ELSE IF agg.op = "sum" THEN AmountAt(fs, b)
     ELSE CHOOSE m \in ValuesAt(fs, agg.column, b) :
            \A v \in ValuesAt(fs, agg.column, b) : v <= m]

Reverse(s) == [j \in 1..Len(s) |-> s[Len(s) + 1 - j]]

\* C13: the raster combined from a window is the stream's own reduction (max
\* or sum) applied per pixel over all rows of the window's dataframes, and
\* does not depend on the order of the window's elements.
C13_MergeMatchesReducer ==
  \A i \in Sliding :
    /\ \A k \in 1..Len(streams[i].out) :
         streams[i].out[k].data = ReducedOverAll(WindowOf(i, k), downstreams[i].agg)
    /\ streams[i].cache # <<>> =>
         aggregate_images(Reverse(streams[i].cache)).data
           = aggregate_images(streams[i].cache).data

\* C14: a cumulative-mean stream never divides by zero and never emits before
\* its first update: its deque and its log are empty until an update has
\* returned, no update raises ZeroDivisionError, and the k-th emission is made
\* with count = k >= 1, so every emitted mean has a positive denominator.
C14_NoDivisionByZero ==
  \A i \in Cumulative :
    /\ returned[i] = 0 => streams[i].q = <<>> /\ streams[i].out = <<>>
    /\ \A c \in 1..Len(calls) : calls[c] # <<i, "ZeroDivisionError">>
    /\ exc # "ZeroDivisionError"
    /\ Len(streams[i].out) = streams[i].count
    /\ streams[i].out # <<>> => streams[i].count >= 1
    /\ \A k \in 1..Len(streams[i].out) : streams[i].out[k][3][2] \in 1..k

\* the first update was given a dataframe without rows and emitted 0 / 1
C14_Witness ==
  \E i \in Cumulative :
    /\ Len(inputs) = 1
    /\ inputs[1].index = <<>>
    /\ streams[i].count = 1
    /\ streams[i].total = 0
    /\ streams[i].out = <<streams[i].q[1]>>
    /\ streams[i].out[1][3] = <<0, 1>>

\* the dataframes pushed so far that have rows
NonEmpty == SelectSeq(inputs, LAMBDA x : x.index # <<>>)

\* C15: a cumulative-mean stream emits an unset `oldest` exactly as long as
\* every dataframe it received had no rows; the first dataframe with rows sets
\* `oldest` to its own earliest timestamp.
C15_OldestUnsetIffAllEmpty ==
  \A i \in Cumulative :
    (\E c \in 1..Len(calls) : calls[c] = <<i, NoError>>) =>
      /\ ~IsTimestamp(Last(streams[i].out)[1]) <=> NonEmpty = <<>>
      /\ NonEmpty # <<>> => Last(streams[i].out)[1] = IndexMin(NonEmpty[1])

\* C16: a sliding-window stream with n >= 1 never combines an empty window:
\* update appends before it combines, so no update raises the IndexError of
\* iterable[0] on an empty tuple, the window is non-empty once the reducer has
\* accepted a dataframe, and every image was combined from at least one element.
C16_NeverCombinesEmptyWindow ==
  \A i \in Sliding :
    downstreams[i].n >= 1 =>
      /\ \A c \in 1..Len(calls) : calls[c] # <<i, "IndexError">>
      /\ exc # "IndexError"
      /\ Reduced(i) # <<>> => streams[i].cache # <<>>
      /\ \A k \in 1..Len(streams[i].wins) : streams[i].wins[k] >= 1
      /\ Len(streams[i].wins) = Len(streams[i].out)

\* the very first update, given a dataframe without rows, combined a window of one
C16_Witness ==
  \E i \in Sliding :
    /\ Len(inputs) = 1
    /\ PointsOk(inputs[1], downstreams[i].agg)
    /\ inputs[1].index = <<>>
    /\ streams[i].wins = <<1>>
    /\ Len(streams[i].cache) = 1
    /\ Len(streams[i].out) = 1

\* C17: an update of a cumulative-mean stream that fails because the column is
\* absent emits nothing and leaves count, total and oldest (and with them the
\* deque) as they were, also when the dataframe is the first with a timestamp.
C17_FailedUpdateChangesNothing ==
  [][\A i \in Cumulative :
       (\E c \in 1..Len(calls') : calls'[c] = <<i, "KeyError">>) =>
         /\ streams'[i].out = streams[i].out
         /\ streams'[i].q = streams[i].q
         /\ streams'[i].count = streams[i].count
         /\ streams'[i].total = streams[i].total
         /\ streams'[i].oldest = streams[i].oldest]_vars

\* C18: an update of a sliding-window stream that fails, in the reducer or in
\* the combiner, leaves the window and the deque exactly as they were: the
\* failing dataframe's partial aggregate is not in the window and no older
\* element was evicted.
C18_FailedUpdateKeepsWindow ==
  [][\A i \in Sliding :
       (\E c \in 1..Len(calls') : calls'[c][1] = i /\ calls'[c][2] # NoError) =>
         /\ streams'[i].cache = streams[i].cache
         /\ streams'[i].q = streams[i].q
         /\ streams'[i].out = streams[i].out]_vars

\* stream k took dataframe x in during the step: it emitted one more result,
\* its deque ends with that result, and its window ends with x's partial
\* aggregate, or its count went up by one
AppliedInStep(k, x) ==
  /\ Len(streams'[k].out) = Len(streams[k].out) + 1
  /\ streams'[k].q # <<>>
  /\ Last(streams'[k].q) = Last(streams'[k].out)
  /\ streams'[k] # streams[k]
  /\ k \in Sliding =>
       /\ streams'[k].cache # <<>>
       /\ Last(streams'[k].cache) = aggregate_df(x, downstreams[k].agg)
  /\ k \in Cumulative =>
       /\ streams'[k].count = streams[k].count + 1
       /\ Last(streams'[k].out)[2] = IndexMax(x)

\* when the emit of the step ended in an exception at stream j, the streams
\* before j keep what they did with the dataframe
AbortKeepsEarlierEffects ==
  exc' # NoError =>
    \A k \in 1..(Len(calls') - 1) : AppliedInStep(k, Last(inputs'))

\* C19 as stated: emit is not atomic across streams (when it aborts at the
\* j-th stream, every stream before j has applied the dataframe and keeps
\* it), and after an emit that returned all streams have processed the same
\* number of dataframes.
C19_SameNumberAfterSuccess ==
  [][/\ AbortKeepsEarlierEffects
     /\ exc' = NoError =>
          \A i, j \in 1..Len(downstreams) : returned'[i] = returned'[j]]_vars

\* C19, amended: emit is not atomic across streams (as above); an emit that
\* returned was applied by every stream, and a stream registered earlier has
\* processed at least as many dataframes as one registered later, strictly
\* more once an emit was aborted between them.
C19_NotAtomicAcrossStreams ==
  [][/\ AbortKeepsEarlierEffects
     /\ (exc' = NoError /\ inputs' # inputs) =>
          \A k \in 1..Len(downstreams) :
            /\ AppliedInStep(k, Last(inputs'))
            /\ returned'[k] = returned[k] + 1
     /\ \A i, j \in 1..Len(downstreams) : i < j => returned'[i] >= returned'[j]
     /\ exc' # NoError =>
          \A i \in 1..(Len(calls') - 1), j \in Len(calls')..Len(downstreams) :
            returned'[i] > returned'[j]]_vars

\* the second emit was aborted by the third stream after the first emit had
\* returned: the first two streams hold two results, the last two hold one
C19_Witness ==
  /\ Len(inputs) = 2
  /\ exc = "KeyError"
  /\ Len(calls) = 3
  /\ returned = <<2, 2, 1, 1>>
  /\ Len(streams[1].q) = 2
  /\ Len(streams[1].cache) = 2
  /\ streams[3].count = 1
  /\ Len(streams[4].q) = 1

Accumulating == {i \in 1..Len(downstreams) : downstreams[i].kind = "accumulate"}

\* C20: cumulative_mean_queue and CumulativeMean with the same column and
\* history, fed the same dataframes, both complete every update without an
\* error, and their deques hold the same (oldest, latest, mean) results after
\* every update.
C20_PipelinesEquivalent ==
  /\ exc = NoError
  /\ \A c \in 1..Len(calls) : calls[c][2] = NoError
  /\ \A i \in Cumulative, j \in Accumulating :
       /\ streams[i].q = streams[j].q
       /\ streams[i].out = streams[j].out
       /\ returned[i] = returned[j]

====
